---- MODULE Spec2Model ----
(***************************************************************************)
(* Model of the weather forecast application: backend.get_data (HTTP GET,  *)
(* JSON parse, "list" lookup, slice to 8 * days entries) and the Streamlit *)
(* script main.py, which is re-run from top to bottom on every user        *)
(* interaction (place text input, days slider, option select box).         *)
(*                                                                         *)
(* One render cycle = one run of the script.  The provider's answer to the *)
(* single HTTP GET of a cycle is an input chosen by the environment.       *)
(* Python exceptions are modelled by the field exc of the value a step     *)
(* yields: "none", or the name of the exception class that was raised.     *)
(***************************************************************************)
EXTENDS Integers, Sequences, FiniteSets, TLC

VARIABLES API_KEY, place, days, option, entered, response, httpLog,
          filtered_data, figure, image, error, uncaught

vars == <<API_KEY, place, days, option, entered, response, httpLog,
          filtered_data, figure, image, error, uncaught>>

\* ------------------------------------------------------------------ bounds
\* Largest number of forecast points the provider's list carries.
MaxSamples == 41

\* Spacing of the provider list lengths that are enumerated.
SampleStep == 8

\* ------------------------------------------------------- program constants
None == "None"

MinDays == 1
MaxDays == 5
PointsPerDay == 8

Days == MinDays..MaxDays

Options == {"Temperature", "Sky"}

Places == {"", "Tokyo", "Nowhere"}

ErrorText == "City not found. Please try again."

images == [Clear  |-> "images/clear.png",
           Clouds |-> "images/cloud.png",
           Rain   |-> "images/rain.png",
           Snow   |-> "images/snow.png"]

\* ------------------------------------------------------------- credential
SecretValues == {None, "", "secret-key"}
EnvValues == {None, "env-key"}

\* Python's `a or b`: b when a is falsy (None or the empty string).
PyOr(a, b) == IF a = None \/ a = "" THEN b ELSE a

\* --------------------------------------------------- the provider's answer
Categories == <<"Clear", "Clouds", "Rain", "Snow">>

Patterns == {"ok", "shuffled", "mist", "emptyweather", "notemp"}

Point(t, x, c) ==
    [dt_txt |-> t, main |-> [temp |-> x], weather |-> <<[main |-> c]>>]

\* The i-th forecast point of a provider list of the given pattern.
\*   ok           well-formed, chronological, the four known categories
\*   shuffled     well-formed, repeated entries, not chronological
\*   mist         as ok, with category "Mist" at every 8th point from the 3rd
\*   emptyweather as ok, with an empty weather array at the 5th point
\*   notemp       as ok, with no "temp" under "main" at the 2nd point
Sample(pattern, i) ==
    LET t == 3 * i
        x == ((7 * i) % 23) - 5
        c == Categories[(i % 4) + 1]
    IN  CASE pattern = "shuffled" ->
               Point(3 * (MaxSamples + 1 - ((i + 1) \div 2)),
                     (((i + 1) \div 2) * 5) % 17, Categories[(i % 3) + 1])
          [] pattern = "mist" /\ i % 8 = 3 -> Point(t, x, "Mist")
          [] pattern = "emptyweather" /\ i = 5 ->
               [dt_txt |-> t, main |-> [temp |-> x], weather |-> <<>>]
          [] pattern = "notemp" /\ i = 2 ->
               [dt_txt |-> t, main |-> [humidity |-> 40],
                weather |-> <<[main |-> c]>>]
          [] OTHER -> Point(t, x, c)

ProviderList(pattern, n) == [i \in 1..n |-> Sample(pattern, i)]

\* The well-formed patterns come in every length that is a multiple of
\* SampleStep up to MaxSamples, and in length MaxSamples; the malformed ones
\* in length SampleStep.
SampleCounts(pattern) ==
    IF pattern \in {"ok", "shuffled"}
    THEN {n \in 0..MaxSamples : n % SampleStep = 0 \/ n = MaxSamples}
    ELSE {SampleStep}

Lengths == UNION {SampleCounts(k) : k \in Patterns}

ProviderLists == [k \in Patterns, n \in Lengths |-> ProviderList(k, n)]

Statuses == {200, 404}

\* A response is described by what the HTTP collaborator did (kind), the
\* status line, whether the body parses as JSON, whether the parsed object
\* has a "list" key, and the list it carries: ProviderList(pattern, n).
NoResponse ==
    [kind |-> "none", status |-> 0, json |-> FALSE, hasList |-> FALSE,
     pattern |-> "ok", n |-> 0]

Responses ==
    {[kind |-> "transport_error", status |-> 0, json |-> FALSE,
      hasList |-> FALSE, pattern |-> "ok", n |-> 0]}
    \cup {[kind |-> "http", status |-> s, json |-> j, hasList |-> FALSE,
           pattern |-> "ok", n |-> 0] : s \in Statuses, j \in BOOLEAN}
    \cup UNION {{[kind |-> "http", status |-> s, json |-> TRUE,
                    hasList |-> TRUE, pattern |-> k, n |-> n] :
                      s \in Statuses, n \in SampleCounts(k)} : k \in Patterns}

\* data["list"] of a response whose body has the key.
ListOf(resp) == ProviderLists[resp.pattern, resp.n]

\* ------------------------------------------------------------ backend.py
Url(p, key) == [q |-> p, appid |-> key, units |-> "metric"]

requests_get_short_circuit(p, key) ==
    IF key = None THEN <<>> ELSE <<Url(p, key)>>

\* The HTTP GETs one call of get_data issues.
requests_get(p, key) == <<Url(p, key)>>

nr_values_fixed(forcast_days) == PointsPerDay

nr_values(forcast_days) == PointsPerDay * forcast_days

\* Python's seq[:n] for n >= 0: no bounds check, never an error.
PySlice(seq, n) == [i \in 1..(IF n < Len(seq) THEN n ELSE Len(seq)) |-> seq[i]]

get_data(p, forcast_days, key, resp) ==
    LET log == requests_get(p, key)
    IN  CASE resp.kind = "transport_error" ->
               [exc |-> "ConnectionError", value |-> <<>>, log |-> log]
          [] resp.kind = "http" /\ ~resp.json ->
               [exc |-> "JSONDecodeError", value |-> <<>>, log |-> log]
          [] resp.kind = "http" /\ resp.json /\ ~resp.hasList ->
               [exc |-> "KeyError", value |-> <<>>, log |-> log]
          [] OTHER ->
               [exc |-> "none",
                value |-> PySlice(ListOf(resp), nr_values(forcast_days)),
                log |-> log]

\* --------------------------------------------------------------- main.py
Hidden == [shown |-> FALSE, x |-> <<>>, y |-> <<>>]
NoImage == [shown |-> FALSE, paths |-> <<>>, caption |-> <<>>]
NoError == [shown |-> FALSE, text |-> ""]
NoWindow == [returned |-> FALSE, value |-> <<>>]

\* The page right after the widgets and the subheader are drawn.
Blank(p, d, o) ==
    [place |-> p, days |-> d, option |-> o, httpLog |-> <<>>,
     filtered_data |-> NoWindow, figure |-> Hidden, image |-> NoImage,
     error |-> NoError, exc |-> "none"]

if_place_always(p) == TRUE

if_place_never(p) == FALSE

if_place(p) == p # ""

HasTemp(entry) ==
    "main" \in DOMAIN entry /\ "temp" \in DOMAIN entry.main

temperature_tenth(data) == [i \in 1..Len(data) |-> data[i].main.temp \div 10]

temperature(data) == [i \in 1..Len(data) |-> data[i].main.temp]

dates(data) == [i \in 1..Len(data) |-> data[i].dt_txt]

TemperatureBranch(c) ==
    LET data == c.filtered_data.value
    IN  IF \E i \in 1..Len(data) :
              ~HasTemp(data[i]) \/ "dt_txt" \notin DOMAIN data[i]
        THEN [c EXCEPT !.exc = "KeyError"]
        ELSE [c EXCEPT !.figure = [shown |-> TRUE, x |-> dates(data),
                                   y |-> temperature(data)]]

\* The exception entry["weather"][0]["main"] raises, or "none".
SkyEntryExc(entry) ==
    CASE "weather" \notin DOMAIN entry -> "KeyError"
      [] Len(entry.weather) = 0 -> "IndexError"
      [] "main" \notin DOMAIN entry.weather[1] -> "KeyError"
      [] OTHER -> "none"

sky(data) == [i \in 1..Len(data) |-> data[i].weather[1].main]

image_paths_default(conditions) ==
    [exc |-> "none",
     value |-> [i \in 1..Len(conditions) |->
                  IF conditions[i] \in DOMAIN images
                  THEN images[conditions[i]] ELSE None]]

\* [images[condition] for condition in sky]: KeyError on an unknown category.
image_paths(conditions) ==
    IF \E i \in 1..Len(conditions) : conditions[i] \notin DOMAIN images
    THEN [exc |-> "KeyError", value |-> <<>>]
    ELSE [exc |-> "none",
          value |-> [i \in 1..Len(conditions) |-> images[conditions[i]]]]

SkyBranch(c) ==
    LET data == c.filtered_data.value
        bad == {i \in 1..Len(data) : SkyEntryExc(data[i]) # "none"}
        first == CHOOSE i \in bad : \A j \in bad : i <= j
    IN  IF bad # {} THEN [c EXCEPT !.exc = SkyEntryExc(data[first])]
        ELSE LET paths == image_paths(sky(data))
             IN  IF paths.exc # "none" THEN [c EXCEPT !.exc = paths.exc]
                 ELSE IF \E i \in 1..Len(data) : "dt_txt" \notin DOMAIN data[i]
                 THEN [c EXCEPT !.exc = "KeyError"]
                 ELSE [c EXCEPT !.image = [shown |-> TRUE,
                                           paths |-> paths.value,
                                           caption |-> dates(data)]]

option_is_Sky_always(c) == TRUE

\* Line 98 tests option again after the Temperature branch has run.
option_is_Sky(c) == c.option = "Sky"

except_KeyError_clearing(c) ==
    [c EXCEPT !.exc = "none", !.place = "",
              !.error = [shown |-> TRUE, text |-> ErrorText]]

\* except KeyError: st.error(...); a handled exception does not propagate.
except_KeyError(c) ==
    [c EXCEPT !.exc = "none", !.error = [shown |-> TRUE, text |-> ErrorText]]

\* The body of the try statement, lines 62-133.
TryBody(c, key, resp) ==
    LET r == get_data(c.place, c.days, key, resp)
        c1 == [c EXCEPT !.httpLog = c.httpLog \o r.log, !.exc = r.exc]
    IN  IF r.exc # "none" THEN c1
        ELSE LET c2 == [c1 EXCEPT !.filtered_data =
                                     [returned |-> TRUE, value |-> r.value]]
                 c3 == IF c2.option = "Temperature"
                       THEN TemperatureBranch(c2) ELSE c2
             IN  IF c3.exc # "none" THEN c3
                 ELSE IF option_is_Sky(c3) THEN SkyBranch(c3) ELSE c3

\* One run of the script from top to bottom with the widgets' values.
Script(p, d, o, key, resp) ==
    LET c == Blank(p, d, o)
    IN  IF if_place(p)
        THEN LET t == TryBody(c, key, resp)
             IN  IF t.exc = "KeyError" THEN except_KeyError(t) ELSE t
        ELSE c

\* ------------------------------------------------------------ the machine
Init ==
    /\ \E s \in SecretValues, e \in EnvValues : API_KEY = PyOr(s, e)
    /\ place = ""
    /\ days = MinDays
    /\ option = "Temperature"
    /\ entered = [place |-> "", days |-> MinDays, option |-> "Temperature"]
    /\ response = NoResponse
    /\ httpLog = <<>>
    /\ filtered_data = NoWindow
    /\ figure = Hidden
    /\ image = NoImage
    /\ error = NoError
    /\ uncaught = "none"

\* A render cycle: the framework re-runs the script with the widget values
\* p, d, o; resp is what the HTTP collaborator answers if a GET is issued.
RenderCycle(p, d, o, resp) ==
    \E c \in {Script(p, d, o, API_KEY, resp)} :
        /\ entered' = [place |-> p, days |-> d, option |-> o]
        /\ place' = c.place
        /\ days' = c.days
        /\ option' = c.option
        /\ response' = IF c.httpLog = <<>> THEN NoResponse ELSE resp
        /\ httpLog' = c.httpLog
        /\ filtered_data' = c.filtered_data
        /\ figure' = c.figure
        /\ image' = c.image
        /\ error' = c.error
        /\ uncaught' = c.exc
        /\ UNCHANGED API_KEY

\* The user edits the place text input.
SetPlace ==
    \E p \in Places, resp \in Responses :
        p # place /\ RenderCycle(p, days, option, resp)

\* The user moves the days slider.
SetDays ==
    \E d \in Days, resp \in Responses :
        d # days /\ RenderCycle(place, d, option, resp)

\* The user picks the other entry of the select box.
SetOption ==
    \E o \in Options, resp \in Responses :
        o # option /\ RenderCycle(place, days, o, resp)

\* The user re-submits the same inputs (rerun of the script).
Rerun ==
    \E resp \in Responses : RenderCycle(place, days, option, resp)

Next == SetPlace \/ SetDays \/ SetOption \/ Rerun

Spec == Init /\ [][Next]_vars

\* The spec's two-state machine, read off the page: a fetch was attempted
\* in the current render cycle or not.
UiState == IF httpLog = <<>> THEN "AwaitingPlace" ELSE "DisplayingResult"

TypeOK ==
    /\ API_KEY \in {None, "secret-key", "env-key"}
    /\ place \in Places /\ days \in Days /\ option \in Options
    /\ response \in Responses \cup {NoResponse}
    /\ Len(httpLog) <= 1
    /\ uncaught \in {"none", "ConnectionError", "JSONDecodeError", "IndexError"}

\* ------------------------------------------------------------------ claims
Non2xx(resp) == resp.kind = "http" /\ resp.status \notin 200..299

\* C1: whenever get_data returns, the window is exactly the first
\* min(n, 8 * days) entries of the provider's list of n points, entry for
\* entry in the provider's order.
C1_WindowIsPrefix ==
    filtered_data.returned =>
        LET L == ListOf(response)
            m == IF Len(L) < 8 * days THEN Len(L) ELSE 8 * days
        IN  /\ Len(filtered_data.value) = m
            /\ \A i \in 1..m : filtered_data.value[i] = L[i]

\* A list longer than the request (more than 24 points, days = 3) was cut
\* to 24 entries.
C1_Witness ==
    /\ filtered_data.returned
    /\ days = 3
    /\ response.n > 24
    /\ response.pattern = "shuffled"
    /\ Len(filtered_data.value) = 24

\* C2: every failure of the request flow (transport error, non-success
\* status, any exception while fetching or rendering) ends the cycle with
\* the generic error shown and nothing escaping uncaught.
C2_AllFailuresCaught ==
    (/\ entered.place # ""
     /\ \/ response.kind = "transport_error"
        \/ Non2xx(response)
        \/ (~figure.shown /\ ~image.shown))
    => (error.shown /\ error.text = ErrorText /\ uncaught = "none")

\* C3: a JSON body without "list" gives no window, the generic error, no
\* chart and no images, and the widgets keep what the user entered.
C3_NoListShowsError ==
    (response.kind = "http" /\ response.json /\ ~response.hasList)
    => /\ ~filtered_data.returned
       /\ error.shown /\ error.text = ErrorText
       /\ ~figure.shown /\ ~image.shown
       /\ uncaught = "none"
       /\ place = entered.place /\ days = entered.days
       /\ option = entered.option

C3_Witness ==
    /\ response.kind = "http" /\ response.json /\ ~response.hasList
    /\ error.shown
    /\ place = "Tokyo" /\ days = 2 /\ option = "Sky"

\* C4: a response with a non-2xx status never yields a forecast window.
C4_Non2xxNeverReturnsWindow ==
    Non2xx(response) => ~filtered_data.returned

Unmapped(entry) ==
    SkyEntryExc(entry) = "none" /\ entry.weather[1].main \notin DOMAIN images

\* C5: in Sky mode a window with a category outside the four known ones
\* fails as an error and no image grid is displayed at all.
C5_UnmappedCategoryFails ==
    (/\ option = "Sky"
     /\ filtered_data.returned
     /\ \E i \in 1..Len(filtered_data.value) :
            Unmapped(filtered_data.value[i]))
    => (~image.shown /\ (error.shown \/ uncaught # "none"))

C5_Witness ==
    /\ option = "Sky"
    /\ filtered_data.returned
    /\ \E i \in 1..Len(filtered_data.value) :
           Unmapped(filtered_data.value[i])
    /\ error.shown

\* C6: a render cycle with an empty place issues no GET, renders nothing
\* and shows no error, whatever days and option are.
C6_EmptyPlaceNoFetch ==
    entered.place = ""
    => /\ httpLog = <<>>
       /\ response = NoResponse
       /\ ~filtered_data.returned
       /\ ~figure.shown /\ ~image.shown /\ ~error.shown
       /\ uncaught = "none"
       /\ UiState = "AwaitingPlace"

C6_Witness ==
    entered.place = "" /\ days = 3 /\ option = "Sky" /\ httpLog = <<>>

\* C7: a render cycle with a non-empty place issues exactly one GET, for
\* that place and with whatever credential was resolved, absent included.
C7_ExactlyOneGet ==
    entered.place # ""
    => (Len(httpLog) = 1 /\ httpLog[1] = Url(entered.place, API_KEY))

C7_Witness ==
    /\ entered.place # ""
    /\ API_KEY = None
    /\ Len(httpLog) = 1
    /\ uncaught = "ConnectionError"

\* C8 as stated: once in DisplayingResult, every interaction leaves the UI
\* in DisplayingResult.
C8_NeverBackToAwaiting ==
    [][UiState = "DisplayingResult" => UiState' = "DisplayingResult"]_vars

\* C8 amended: an interaction that leaves the place non-empty ends in
\* DisplayingResult after exactly one new GET for the entered place, the
\* window being cut from that GET's response; an interaction that leaves
\* the place empty ends in AwaitingPlace.
C8_ReentersUnlessCleared ==
    [][/\ entered'.place # ""
          => /\ UiState' = "DisplayingResult"
             /\ Len(httpLog') = 1
             /\ httpLog'[1].q = entered'.place
             /\ response' # NoResponse
             /\ filtered_data'.returned
                  => filtered_data'.value =
                        SubSeq(ListOf(response'), 1,
                               Len(filtered_data'.value))
       /\ entered'.place = "" => UiState' = "AwaitingPlace"]_vars

C8_Witness ==
    /\ UiState = "DisplayingResult"
    /\ place = "Nowhere" /\ days = 2 /\ option = "Sky"
    /\ filtered_data.returned

WellFormed(entry) ==
    HasTemp(entry) /\ "dt_txt" \in DOMAIN entry /\ SkyEntryExc(entry) = "none"

C10_AtMostOneOutput ==
    /\ ~(figure.shown /\ image.shown)
    /\ ~(figure.shown /\ error.shown)
    /\ ~(image.shown /\ error.shown)
    /\ figure.shown => option = "Temperature"
    /\ image.shown => option = "Sky"

C10_Witness ==
    /\ option = "Temperature"
    /\ filtered_data.returned
    /\ error.shown
    /\ ~figure.shown
====
